---- MODULE Spec2Model ----
(***************************************************************************)
(* A model of the frost_ogc integration: the polling sensors of            *)
(* sensor.py (FrostLatestObservationSensor, FrostMeldehoeheLevelSensor),   *)
(* the datastream coordinator and _build_auth of __init__.py, and the      *)
(* configuration wizard of config_flow.py.                                 *)
(*                                                                         *)
(* JSON / Python values are records [t, n, s]:                             *)
(*   t = "none"   Python None (also: a key that is absent from a dict read *)
(*                with .get)                                               *)
(*   t = "int"    a Python int, n its value                                *)
(*   t = "float"  a Python float, n its value in tenths (fixed point; the  *)
(*                strings of the model carry at most one fractional digit) *)
(*   t = "str"    a string, s its characters                               *)
(*   t = "obj"    structured JSON (a dict or a list)                       *)
(***************************************************************************)
EXTENDS Integers, Sequences, FiniteSets, TLC

\* ------------------------------------------------------------------ bounds

\* Thresholds MH1..MH3 of the gauge range over None and 1..MaxThreshold.
MaxThreshold == 2
\* Numeric observation results range over 0..MaxReading.
MaxReading == 2
\* Configuration flows that may be in progress at the same time.
MaxFlows == 2

\* ------------------------------------------------------------------ values

None == [t |-> "none", n |-> 0, s |-> <<>>]
PyInt(i) == [t |-> "int", n |-> i, s |-> <<>>]
PyFloat(tenths) == [t |-> "float", n |-> tenths, s |-> <<>>]
PyStr(cs) == [t |-> "str", n |-> 0, s |-> cs]
JsonObj == [t |-> "obj", n |-> 0, s |-> <<>>]

Digits == {"0", "1", "2", "3", "4", "5", "6", "7", "8", "9"}
DigitVal == ("0" :> 0) @@ ("1" :> 1) @@ ("2" :> 2) @@ ("3" :> 3) @@ ("4" :> 4) @@
            ("5" :> 5) @@ ("6" :> 6) @@ ("7" :> 7) @@ ("8" :> 8) @@ ("9" :> 9)

\* str.replace(",", ".")
ReplaceComma(cs) == [i \in 1..Len(cs) |-> IF cs[i] = "," THEN "." ELSE cs[i]]

\* The end of the run of digits that starts at position i (cs[i] is a digit).
RECURSIVE DigitsEnd(_, _)
DigitsEnd(cs, i) ==
    IF i < Len(cs) /\ cs[i + 1] \in Digits THEN DigitsEnd(cs, i + 1) ELSE i

\* The value of the digits cs[i..j].
RECURSIVE DigitsValue(_, _, _)
DigitsValue(cs, i, j) ==
    IF j < i THEN 0 ELSE 10 * DigitsValue(cs, i, j - 1) + DigitVal[cs[j]]

\* re.search(r"[-+]?\d+(\.\d+)?", cs): the leftmost position where the
\* pattern matches, 0 when there is none.
MatchStarts(cs) ==
    {i \in 1..Len(cs) :
        \/ cs[i] \in Digits
        \/ cs[i] \in {"+", "-"} /\ i < Len(cs) /\ cs[i + 1] \in Digits}
MatchStart(cs) ==
    IF MatchStarts(cs) = {} THEN 0
    ELSE CHOOSE i \in MatchStarts(cs) : \A j \in MatchStarts(cs) : i <= j

\* float(m.group(0)) of the match that starts at position i, in tenths.
MatchFloat(cs, i) ==
    LET signed == cs[i] \in {"+", "-"}
        d0 == IF signed THEN i + 1 ELSE i
        d1 == DigitsEnd(cs, d0)
        hasFrac == d1 + 1 < Len(cs) /\ cs[d1 + 1] = "." /\ cs[d1 + 2] \in Digits
        frac == IF hasFrac THEN DigitVal[cs[d1 + 2]] ELSE 0
        mag == 10 * DigitsValue(cs, d0, d1) + frac
    IN  IF cs[i] = "-" THEN 0 - mag ELSE mag

\* _safe_float: None -> default; a string -> the first number in it, or
\* default; anything else -> float(v), or default when float() raises.
safe_float(v, default) ==
    IF v.t = "none" THEN default
    ELSE IF v.t = "str" THEN
        LET cs == ReplaceComma(v.s)
            i == MatchStart(cs)
        IN  IF i = 0 THEN default ELSE PyFloat(MatchFloat(cs, i))
    ELSE IF v.t = "int" THEN PyFloat(10 * v.n)
    ELSE IF v.t = "float" THEN v
    ELSE default

\* dict.update(upd) and dict.pop(k, None)
DictUpdate(m, upd) ==
    [k \in DOMAIN m \cup DOMAIN upd |-> IF k \in DOMAIN upd THEN upd[k] ELSE m[k]]
DictPop(m, k) == [j \in DOMAIN m \ {k} |-> m[j]]

\* ------------------------------------------------------------ Thing metadata

\* A Thing property bag: "type", "keywords" and the nested "Meldehöhen"
\* object; a key that is absent reads as None / the empty list.
Props(type, keywords, mh1, mh2, mh3) ==
    [type |-> type, keywords |-> keywords,
     Meldehoehen |-> [MH1 |-> mh1, MH2 |-> mh2, MH3 |-> mh3]]
EmptyProps == Props(None, <<>>, None, None, None)

\* _get_meldehoehen
get_meldehoehen(props) ==
    LET mh == props.Meldehoehen
    IN  <<safe_float(mh.MH1, None), safe_float(mh.MH2, None), safe_float(mh.MH3, None)>>

UpperCase == <<"A", "B", "C", "D", "E", "F", "G", "H", "I", "J", "K", "L", "M",
               "N", "O", "P", "Q", "R", "S", "T", "U", "V", "W", "X", "Y", "Z">>
LowerCase == <<"a", "b", "c", "d", "e", "f", "g", "h", "i", "j", "k", "l", "m",
               "n", "o", "p", "q", "r", "s", "t", "u", "v", "w", "x", "y", "z">>
\* str(x).lower() of a string or of an absent value (which reads as "")
LowerChar(c) ==
    IF \E i \in 1..26 : UpperCase[i] = c
    THEN LowerCase[CHOOSE i \in 1..26 : UpperCase[i] = c] ELSE c
str_lower(v) == [i \in 1..Len(v.s) |-> LowerChar(v.s[i])]

pegel == <<"p", "e", "g", "e", "l">>
wasserstandsmessung ==
    <<"w", "a", "s", "s", "e", "r", "s", "t", "a", "n", "d", "s", "m", "e", "s", "s", "u", "n", "g">>

\* _is_pegel
is_pegel(props) ==
    IF props = EmptyProps THEN FALSE
    ELSE IF str_lower(props.type) = pegel THEN TRUE
    ELSE LET kws_l == {str_lower(props.keywords[i]) : i \in 1..Len(props.keywords)}
         IN  pegel \in kws_l \/ wasserstandsmessung \in kws_l

\* A Thing and a Datastream object of the metadata query's response.
Thing(id, name, props) ==
    [id |-> id, name |-> name, description |-> None, properties |-> props]
NoThing == Thing(None, None, EmptyProps)
Datastream(id, name, unit, thing) ==
    [id |-> id, name |-> name, description |-> None, unit |-> unit, Thing |-> thing]

DigitChar == <<"1", "2", "3", "4", "5", "6", "7", "8", "9">>

\* FrostDatastreamDescription as sensor.async_setup_entry builds it from one
\* Datastream object whose @iot.id is an int.
FrostDatastreamDescription(ds) ==
    [key |-> <<DigitChar[ds.id.n]>>,
     name |-> IF ds.name.t = "none" \/ ds.name = PyStr(<<>>)
              THEN PyStr(<<"Datastream ", DigitChar[ds.id.n]>>) ELSE ds.name,
     datastream_id |-> ds.id.n,
     unit_symbol |-> ds.unit,
     datastream_description |-> ds.description,
     thing_id |-> IF ds.Thing.id.t = "int" THEN ds.Thing.id ELSE None,
     thing_name |-> ds.Thing.name,
     thing_description |-> ds.Thing.description,
     thing_properties |-> ds.Thing.properties]

\* ------------------------------------------------------------------ entities

StaticKeys == {"datastream_id", "datastream_description", "thing_id", "thing_name",
               "thing_description", "thing_properties", "mh1", "mh2", "mh3"}
ObservationKeys == {"phenomenonTime", "resultTime", "observation_id"}

\* FrostLatestObservationSensor.__init__: the attribute map and the value
\* of a freshly constructed reading entity.
StaticAttributes(d) ==
    LET mh == get_meldehoehen(d.thing_properties)
    IN  [k \in StaticKeys |->
            CASE k = "datastream_id" -> PyInt(d.datastream_id)
              [] k = "datastream_description" -> d.datastream_description
              [] k = "thing_id" -> d.thing_id
              [] k = "thing_name" -> d.thing_name
              [] k = "thing_description" -> d.thing_description
              [] k = "thing_properties" -> d.thing_properties
              [] k = "mh1" -> mh[1]
              [] k = "mh2" -> mh[2]
              [] k = "mh3" -> mh[3]]
LatestObservationSensor_init(d) == [value |-> None, attrs |-> StaticAttributes(d)]

\* One Observation object of the observation query's response; its
\* timestamps and its id tell the observations apart.
Observation(id, result) ==
    [id |-> PyInt(id), result |-> result,
     phenomenonTime |-> PyStr(<<"p", DigitChar[id]>>),
     resultTime |-> PyStr(<<"r", DigitChar[id]>>)]

no_observations == PyStr(<<"no observations">>)

\* A faulty variant of the merge: the empty result leaves observation_id in place.
LatestObservationSensor_merge_keeps_id(st, data) ==
    LET values == data.value
    IN  IF values = <<>>
        THEN [value |-> None,
              attrs |-> DictPop(DictPop(
                            DictUpdate(st.attrs, [observation_note |-> no_observations]),
                            "phenomenonTime"), "resultTime")]
        ELSE LET obs == values[1]
             IN  [value |-> obs.result,
                  attrs |-> DictPop(
                      DictUpdate(st.attrs,
                                 [phenomenonTime |-> obs.phenomenonTime,
                                  resultTime |-> obs.resultTime,
                                  observation_id |-> obs.id]),
                      "observation_note")]

\* A faulty variant of the merge: an observation does not clear observation_note.
LatestObservationSensor_merge_keeps_note(st, data) ==
    LET values == data.value
    IN  IF values = <<>>
        THEN [value |-> None,
              attrs |-> DictPop(DictPop(DictPop(
                            DictUpdate(st.attrs, [observation_note |-> no_observations]),
                            "phenomenonTime"), "resultTime"), "observation_id")]
        ELSE LET obs == values[1]
             IN  [value |-> obs.result,
                  attrs |-> DictUpdate(st.attrs,
                                 [phenomenonTime |-> obs.phenomenonTime,
                                  resultTime |-> obs.resultTime,
                                  observation_id |-> obs.id])]

\* A faulty variant of the merge: the value is written, the attribute map is left for
\* a later step.
LatestObservationSensor_merge_value_only(st, data) ==
    LET values == data.value
    IN  IF values = <<>>
        THEN [value |-> None, attrs |-> st.attrs]
        ELSE [value |-> values[1].result, attrs |-> st.attrs]

\* FrostLatestObservationSensor.async_update after the two awaits: the merge
\* of the decoded response into the entity's value and attribute map.  No
\* await separates these statements, so they are one step of the event loop.
LatestObservationSensor_merge(st, data) ==
    LET values == data.value
    IN  IF values = <<>>
        THEN [value |-> None,
              attrs |-> DictPop(DictPop(DictPop(
                            DictUpdate(st.attrs, [observation_note |-> no_observations]),
                            "phenomenonTime"), "resultTime"), "observation_id")]
        ELSE LET obs == values[1]
             IN  [value |-> obs.result,
                  attrs |-> DictPop(
                      DictUpdate(st.attrs,
                                 [phenomenonTime |-> obs.phenomenonTime,
                                  resultTime |-> obs.resultTime,
                                  observation_id |-> obs.id]),
                      "observation_note")]

\* A faulty variant of the failure path: the value is reset before the exception leaves.
LatestObservationSensor_raise_resets(st) == [value |-> None, attrs |-> st.attrs]

\* An exception raised by session.get, raise_for_status or resp.json leaves
\* async_update before any of its assignments.
LatestObservationSensor_raise(st) == st

\* FrostMeldehoeheLevelSensor.__init__
MeldehoeheLevelSensor_init(vs) ==
    [value |-> None,
     attrs |-> [mh1 |-> vs.attrs["mh1"], mh2 |-> vs.attrs["mh2"], mh3 |-> vs.attrs["mh3"]]]

\* A faulty variant of the cascade: an absent higher threshold ends the evaluation.
meldehoehe_level_blocked(p, mh1, mh2, mh3) ==
    IF mh3 = None THEN 0
    ELSE IF p.n >= mh3.n THEN 3
    ELSE IF mh2 = None THEN 0
    ELSE IF p.n >= mh2.n THEN 2
    ELSE IF mh1 # None /\ p.n >= mh1.n THEN 1
    ELSE 0

\* The cascade of FrostMeldehoeheLevelSensor.async_update for a float p.
meldehoehe_level(p, mh1, mh2, mh3) ==
    IF mh3 # None /\ p.n >= mh3.n THEN 3
    ELSE IF mh2 # None /\ p.n >= mh2.n THEN 2
    ELSE IF mh1 # None /\ p.n >= mh1.n THEN 1
    ELSE 0

\* FrostMeldehoeheLevelSensor.async_update: vs is the value sensor as it is
\* when the update runs, ls the level sensor.
MeldehoeheLevelSensor_update(vs, ls) ==
    LET p == safe_float(vs.value, None)
        mh1 == vs.attrs["mh1"]
        mh2 == vs.attrs["mh2"]
        mh3 == vs.attrs["mh3"]
        attrs == DictUpdate(ls.attrs, [mh1 |-> mh1, mh2 |-> mh2, mh3 |-> mh3])
    IN  IF p = None
        THEN [value |-> None, attrs |-> attrs]
        ELSE [value |-> PyInt(meldehoehe_level(p, mh1, mh2, mh3)), attrs |-> attrs]

\* sensor.async_setup_entry: one reading entity per Datastream whose @iot.id
\* is an int, and one level entity more when its Thing is a gauge.
ValidIndexes(data) == {i \in 1..Len(data) : data[i].id.t = "int"}
DatastreamIds(data) == {data[i].id.n : i \in ValidIndexes(data)}
DatastreamOf(data, id) == data[CHOOSE i \in ValidIndexes(data) : data[i].id.n = id]
DescriptionOf(data, id) == FrostDatastreamDescription(DatastreamOf(data, id))
GaugeIds(data) ==
    {id \in DatastreamIds(data) : is_pegel(DescriptionOf(data, id).thing_properties)}

\* ------------------------------------------------------------------- inputs

str_Pegel == PyStr(<<"P", "e", "g", "e", "l">>)
str_Temperatur == PyStr(<<"T", "e", "m", "p">>)
kw_WASSERSTAND == PyStr(<<"W", "A", "S", "S", "E", "R", "S", "T", "A", "N", "D", "S",
                          "M", "E", "S", "S", "U", "N", "G">>)
str_cm == PyStr(<<"c", "m">>)
str_name(c) == PyStr(<<c>>)

\* The second datastream: no name, no Thing.
Datastream2 == Datastream(PyInt(2), None, None, NoThing)
\* A datastream whose @iot.id is not an int: setup skips it.
DatastreamBad == Datastream(PyStr(<<"x">>), str_name("bad"), None, NoThing)

\* The first datastream, as the first refresh may find it.
Datastream1Choices ==
    { \* a gauge by its type, thresholds given as a string, an int and a
      \* string with a decimal comma
      Datastream(PyInt(1), str_name("Pegel A"), str_cm,
                 Thing(PyInt(5), str_name("A"),
                       Props(str_Pegel, <<>>, PyStr(<<"1">>), PyInt(2),
                             PyStr(<<"2", ",", "5", " ", "c", "m">>)))),
      \* a gauge by a keyword, no thresholds
      Datastream(PyInt(1), str_name("Pegel B"), str_cm,
                 Thing(PyInt(5), str_name("B"),
                       Props(None, <<kw_WASSERSTAND>>, None, None, None))),
      \* not a gauge, with threshold-like properties
      Datastream(PyInt(1), str_name("Temp"), None,
                 Thing(PyInt(6), str_name("C"),
                       Props(str_Temperatur, <<>>, PyInt(1), PyInt(1), PyInt(1)))) }
MetadataChoices == {<<d1, Datastream2, DatastreamBad>> : d1 \in Datastream1Choices}

\* What a later refresh of the datastream list may find: datastream 1
\* renamed, no gauge any more and with other thresholds, and a new
\* datastream 3; or datastream 1 removed.
RefreshChoices ==
    { <<Datastream(PyInt(1), str_name("renamed"), None,
                   Thing(PyInt(5), str_name("A"),
                         Props(str_Temperatur, <<>>, PyInt(2), None, None))),
        Datastream2,
        Datastream(PyInt(3), str_name("new"), str_cm,
                   Thing(PyInt(5), str_name("A"),
                         Props(str_Pegel, <<>>, PyInt(1), None, None)))>>,
      <<Datastream2>> }

\* The outcome of a refresh: a failure, or the datastream list fetched.
RefreshOutcomes ==
    {[ok |-> FALSE, value |-> <<>>]} \cup {[ok |-> TRUE, value |-> d] : d \in RefreshChoices}

\* One gauge datastream with every combination of absent and present
\* thresholds, ascending or not.
ThresholdChoices == {None} \cup {PyInt(k) : k \in 1..MaxThreshold}
GaugeMetadataChoices ==
    {<<Datastream(PyInt(1), str_name("Pegel"), str_cm,
                  Thing(PyInt(5), str_name("A"), Props(str_Pegel, <<>>, m1, m2, m3)))>> :
        m1 \in ThresholdChoices, m2 \in ThresholdChoices, m3 \in ThresholdChoices}

\* The observations the server may return: int results 0..MaxReading, a
\* string with a number in it, a string without one, structured JSON, and
\* an observation without a result.
Observations ==
    {Observation(k + 1, PyInt(k)) : k \in 0..MaxReading}
    \cup {Observation(6, PyStr(<<"2", ",", "5", " ", "m">>)),
          Observation(7, PyStr(<<"k", "e", "i", "n", "e">>)),
          Observation(8, JsonObj),
          Observation(9, None)}
\* The decoded response of the observation query: its "value" array.
Responses == {[value |-> <<>>]} \cup {[value |-> <<o>>] : o \in Observations}
\* Datastream 1 may return any of them; the other datastreams hold text
\* observations only.
ResponsesOf(e) ==
    IF e = 1 THEN Responses
    ELSE {[value |-> <<>>], [value |-> <<Observation(7, PyStr(<<"k", "e", "i", "n", "e">>))>>]}

\* -------------------------------------------------- configuration and auth

\* const.py: the keys of a config entry's data and the auth modes.
CONF_BASE_URL == "base_url"
CONF_SCAN_INTERVAL == "scan_interval"
CONF_AUTH_TYPE == "auth_type"
CONF_USERNAME == "username"
CONF_PASSWORD == "password"
CONF_TOKEN == "token"
AUTH_NONE == PyStr(<<"none">>)
AUTH_BASIC == PyStr(<<"basic">>)
AUTH_BEARER == PyStr(<<"bearer">>)

EmptyDict == [k \in {} |-> None]
\* dict.get(k, default)
DictGet(m, k, default) == IF k \in DOMAIN m THEN m[k] ELSE default

Whitespace == {" ", "\t", "\n"}
\* str.strip()
RECURSIVE lstrip(_)
lstrip(cs) == IF cs # <<>> /\ Head(cs) \in Whitespace THEN lstrip(Tail(cs)) ELSE cs
RECURSIVE rstrip(_)
rstrip(cs) ==
    IF cs # <<>> /\ cs[Len(cs)] \in Whitespace THEN rstrip(SubSeq(cs, 1, Len(cs) - 1)) ELSE cs
strip(cs) == rstrip(lstrip(cs))
\* str.rstrip("/")
RECURSIVE rstrip_slash(_)
rstrip_slash(cs) ==
    IF cs # <<>> /\ cs[Len(cs)] = "/" THEN rstrip_slash(SubSeq(cs, 1, Len(cs) - 1)) ELSE cs

\* _normalize_base_url
normalize_base_url(url) == rstrip_slash(strip(url))

\* aiohttp.BasicAuth(login, password)
BasicAuth(login, password) == [auth |-> "BasicAuth", login |-> login, password |-> password]
NoAuth == [auth |-> "None", login |-> None, password |-> None]

\* A faulty variant of _build_auth: the Bearer mode also builds a BasicAuth object.
build_auth_both(data) ==
    LET auth_type == DictGet(data, CONF_AUTH_TYPE, AUTH_NONE)
        headers == [Accept |-> PyStr(<<"application/json">>)]
    IN  IF auth_type = AUTH_BASIC
        THEN [headers |-> headers,
              auth |-> BasicAuth(DictGet(data, CONF_USERNAME, PyStr(<<>>)),
                                 DictGet(data, CONF_PASSWORD, PyStr(<<>>)))]
        ELSE IF auth_type = AUTH_BEARER
        THEN [headers |-> DictUpdate(headers,
                  [Authorization |->
                      PyStr(<<"Bearer ">> \o DictGet(data, CONF_TOKEN, PyStr(<<>>)).s)]),
              auth |-> BasicAuth(DictGet(data, CONF_USERNAME, PyStr(<<>>)),
                                 DictGet(data, CONF_PASSWORD, PyStr(<<>>)))]
        ELSE [headers |-> headers, auth |-> NoAuth]

\* _build_auth(entry), on entry.data
build_auth(data) ==
    LET auth_type == DictGet(data, CONF_AUTH_TYPE, AUTH_NONE)
        headers == [Accept |-> PyStr(<<"application/json">>)]
    IN  IF auth_type = AUTH_BASIC
        THEN [headers |-> headers,
              auth |-> BasicAuth(DictGet(data, CONF_USERNAME, PyStr(<<>>)),
                                 DictGet(data, CONF_PASSWORD, PyStr(<<>>)))]
        ELSE IF auth_type = AUTH_BEARER
        THEN [headers |-> DictUpdate(headers,
                  [Authorization |->
                      PyStr(<<"Bearer ">> \o DictGet(data, CONF_TOKEN, PyStr(<<>>)).s)]),
              auth |-> NoAuth]
        ELSE [headers |-> headers, auth |-> NoAuth]

\* What __init__.async_setup_entry stores in hass.data for an entry.
entry_runtime_data(data) ==
    [base_url |-> rstrip_slash(data[CONF_BASE_URL].s),
     headers |-> build_auth(data).headers,
     auth |-> build_auth(data).auth]

\* self._data as async_step_user builds it from the submitted form.
user_step_data(user_input) ==
    [base_url |-> PyStr(normalize_base_url(user_input.base_url.s)),
     scan_interval |-> user_input.scan_interval,
     auth_type |-> user_input.auth_type]

\* async_create_entry(title=f"FROST ({base_url})", data=self._data), with the
\* unique id of the flow's context; the flow's id stands for the entry_id.
create_entry(f, unique_id, data) ==
    [entry_id |-> f, unique_id |-> unique_id,
     title |-> PyStr(<<"FROST (">> \o data[CONF_BASE_URL].s \o <<")">>),
     data |-> data]

\* A faulty variant of the check: no configured entry is ever found.
unique_id_configured_never(es, unique_id) == FALSE

\* _abort_if_unique_id_configured: an entry with the flow's unique id exists.
unique_id_configured(es, unique_id) == \E en \in es : en.unique_id = unique_id

\* The forms the user may submit.
UrlChoices ==
    { <<"a">>, <<" ", "a", "/", "/", " ">>, <<"a", " ", "/">>, <<"b", "/">> }
UserInputs ==
    [base_url : {PyStr(u) : u \in UrlChoices}, scan_interval : {PyInt(60)},
     auth_type : {AUTH_NONE, AUTH_BASIC, AUTH_BEARER}]
BasicInputs == [username : {PyStr(<<"u">>), PyStr(<<"v">>)}, password : {PyStr(<<"p">>)}]
BearerInputs == [token : {PyStr(<<"t">>), PyStr(<<"s">>)}]

\* The entry the sensors of the model belong to.
ConfiguredEntry ==
    create_entry(0, PyStr(<<"a">>),
                 user_step_data([base_url |-> PyStr(<<"a", "/">>), scan_interval |-> PyInt(60),
                                 auth_type |-> AUTH_NONE]))

\* -------------------------------------------------------------------- state

VARIABLES
    coordinatorData,    \* coordinator.data: the datastream list last fetched
    desc,               \* entity_description of the entities of a datastream
    value,              \* reading entity: _attr_native_value
    attrs,              \* reading entity: _attr_extra_state_attributes
    pc,                 \* reading entity: where its async_update stands
    lastData,           \* reading entity: the response its last merge applied
    heldBefore,         \* reading entity: it held an observation when its last merge ran
    lvlValue,           \* level entity: _attr_native_value
    lvlAttrs,           \* level entity: _attr_extra_state_attributes
    lvlPc,              \* level entity: where its async_update stands
    flowStep,           \* config flow: the form it shows, or how it ended
    flowData,           \* config flow: self._data
    flowUniqueId,       \* config flow: context["unique_id"]
    flowInput,          \* config flow: the URL its user step was submitted with
    entries,            \* the config entries of the domain
    hassData            \* hass.data[DOMAIN]: entry_id -> what setup stored

sensorVars == <<coordinatorData, desc, value, attrs, pc, lastData, heldBefore,
                lvlValue, lvlAttrs, lvlPc>>
flowVars == <<flowStep, flowData, flowUniqueId, flowInput, entries, hassData>>
vars == <<sensorVars, flowVars>>

Flows == 1..MaxFlows

ReadingEntities == DOMAIN value
LevelEntities == DOMAIN lvlValue
ReadingState(e) == [value |-> value[e], attrs |-> attrs[e]]
LevelState(e) == [value |-> lvlValue[e], attrs |-> lvlAttrs[e]]
NoData == [fetched |-> FALSE, value |-> <<>>]
Fetched(data) == [fetched |-> TRUE, value |-> data.value]
HoldsObservation(st) == ObservationKeys \cap DOMAIN st.attrs # {}

\* The state after __init__.async_setup_entry (first refresh) and
\* sensor.async_setup_entry built the entities from `data`.
sensor_async_setup_entry(data) ==
    /\ coordinatorData = data
    /\ desc = [e \in DatastreamIds(data) |-> DescriptionOf(data, e)]
    /\ value = [e \in DatastreamIds(data) |->
                    LatestObservationSensor_init(DescriptionOf(data, e)).value]
    /\ attrs = [e \in DatastreamIds(data) |->
                    LatestObservationSensor_init(DescriptionOf(data, e)).attrs]
    /\ pc = [e \in DatastreamIds(data) |-> "idle"]
    /\ lastData = [e \in DatastreamIds(data) |-> NoData]
    /\ heldBefore = [e \in DatastreamIds(data) |-> FALSE]
    /\ lvlValue = [e \in GaugeIds(data) |->
                    MeldehoeheLevelSensor_init(
                        LatestObservationSensor_init(DescriptionOf(data, e))).value]
    /\ lvlAttrs = [e \in GaugeIds(data) |->
                    MeldehoeheLevelSensor_init(
                        LatestObservationSensor_init(DescriptionOf(data, e))).attrs]
    /\ lvlPc = [e \in GaugeIds(data) |-> "idle"]

\* No flow has been started.
FlowsIdle ==
    /\ flowStep = [f \in Flows |-> "init"]
    /\ flowData = [f \in Flows |-> EmptyDict]
    /\ flowUniqueId = [f \in Flows |-> None]
    /\ flowInput = [f \in Flows |-> None]

\* One entry is configured and set up, its entities are built.
Configured ==
    /\ FlowsIdle
    /\ entries = {ConfiguredEntry}
    /\ hassData = (0 :> entry_runtime_data(ConfiguredEntry.data))

Init == Configured /\ \E data \in MetadataChoices : sensor_async_setup_entry(data)
InitGauge == Configured /\ \E data \in GaugeMetadataChoices : sensor_async_setup_entry(data)
\* Nothing is configured yet: no entry, no entity.
InitFlow ==
    /\ FlowsIdle
    /\ entries = {}
    /\ hassData = [e \in {} |-> None]
    /\ sensor_async_setup_entry(<<>>)

\* ------------------------------------------------------------------ actions

levelVars == <<lvlValue, lvlAttrs, lvlPc>>

\* The host polls the reading entity: async_update builds the URL and
\* suspends in session.get.
StartUpdate(e) ==
    /\ pc[e] = "idle"
    /\ pc' = [pc EXCEPT ![e] = "get"]
    /\ UNCHANGED <<flowVars, coordinatorData, desc, value, attrs, lastData, heldBefore, levelVars>>

\* async_update leaves with an exception.
Raise(e) ==
    /\ value' = [value EXCEPT ![e] = LatestObservationSensor_raise(ReadingState(e)).value]
    /\ attrs' = [attrs EXCEPT ![e] = LatestObservationSensor_raise(ReadingState(e)).attrs]
    /\ pc' = [pc EXCEPT ![e] = "failed"]
    /\ UNCHANGED <<flowVars, coordinatorData, desc, lastData, heldBefore, levelVars>>

\* session.get raises (a network error).
GetRaises(e) ==
    /\ pc[e] = "get"
    /\ Raise(e)

\* session.get returns a response; raise_for_status raises unless its
\* status is 2xx, else async_update suspends in resp.json.
GetReturns(e, status) ==
    /\ pc[e] = "get"
    /\ IF status = "2xx"
       THEN /\ pc' = [pc EXCEPT ![e] = "json"]
            /\ UNCHANGED <<flowVars, coordinatorData, desc, value, attrs, lastData, heldBefore,
                           levelVars>>
       ELSE Raise(e)

\* resp.json raises (the body is no JSON).
JsonRaises(e) ==
    /\ pc[e] = "json"
    /\ Raise(e)

\* resp.json returns the decoded body and async_update runs to its end.
JsonReturns(e, data) ==
    /\ pc[e] = "json"
    /\ value' = [value EXCEPT ![e] = LatestObservationSensor_merge(ReadingState(e), data).value]
    /\ attrs' = [attrs EXCEPT ![e] = LatestObservationSensor_merge(ReadingState(e), data).attrs]
    /\ pc' = [pc EXCEPT ![e] = "done"]
    /\ lastData' = [lastData EXCEPT ![e] = Fetched(data)]
    /\ heldBefore' = [heldBefore EXCEPT ![e] = HoldsObservation(ReadingState(e))]
    /\ UNCHANGED <<flowVars, coordinatorData, desc, levelVars>>

\* The host abandons the update while it is suspended in an await.
Abandon(e) ==
    /\ pc[e] \in {"get", "json"}
    /\ pc' = [pc EXCEPT ![e] = "cancelled"]
    /\ UNCHANGED <<flowVars, coordinatorData, desc, value, attrs, lastData, heldBefore, levelVars>>

\* The host polls the level entity; its async_update has no await.
LevelUpdate(e) ==
    /\ lvlPc[e] = "idle"
    /\ lvlValue' = [lvlValue EXCEPT ![e] =
                        MeldehoeheLevelSensor_update(ReadingState(e), LevelState(e)).value]
    /\ lvlAttrs' = [lvlAttrs EXCEPT ![e] =
                        MeldehoeheLevelSensor_update(ReadingState(e), LevelState(e)).attrs]
    /\ lvlPc' = [lvlPc EXCEPT ![e] = "done"]
    /\ UNCHANGED <<flowVars, coordinatorData, desc, value, attrs, pc, lastData, heldBefore>>

\* The next scan interval begins: every entity is due again.
NewCycle ==
    /\ \A e \in ReadingEntities : pc[e] \notin {"get", "json"}
    /\ \/ \E e \in ReadingEntities : pc[e] # "idle"
       \/ \E e \in LevelEntities : lvlPc[e] # "idle"
    /\ pc' = [e \in ReadingEntities |-> "idle"]
    /\ lvlPc' = [e \in LevelEntities |-> "idle"]
    /\ UNCHANGED <<flowVars, coordinatorData, desc, value, attrs, lastData, heldBefore, lvlValue,
                   lvlAttrs>>

\* The coordinator runs async_update_datastreams: on success its result,
\* the "value" array of the metadata query, becomes coordinator.data; on
\* any exception it raises UpdateFailed and coordinator.data stays.  The
\* entities were built by sensor.async_setup_entry and are not touched.
async_update_datastreams(old, outcome) == IF outcome.ok THEN outcome.value ELSE old
RefreshDatastreams(outcome) ==
    /\ coordinatorData' = async_update_datastreams(coordinatorData, outcome)
    /\ UNCHANGED <<flowVars, desc, value, attrs, pc, lastData, heldBefore, levelVars>>

\* --------------------------------------------------------- config flow steps

InProgress == {"form_user", "form_basic", "form_bearer"}

\* The user starts a flow: async_step_user(None) shows the user form.
StartFlow(f) ==
    /\ flowStep[f] = "init"
    /\ flowStep' = [flowStep EXCEPT ![f] = "form_user"]
    /\ UNCHANGED <<sensorVars, flowData, flowUniqueId, flowInput, entries, hassData>>

\* async_set_unique_id (raise_on_progress): another flow of the handler is
\* in progress with this unique id.
in_progress(f, unique_id) ==
    \E g \in Flows \ {f} : flowStep[g] \in InProgress /\ flowUniqueId[g] = unique_id

\* async_step_user(user_input): the user form is submitted.
StepUser(f, user_input) ==
    LET data == user_step_data(user_input)
        unique_id == data[CONF_BASE_URL]
    IN  /\ flowStep[f] = "form_user"
        /\ flowData' = [flowData EXCEPT ![f] = data]
        /\ flowInput' = [flowInput EXCEPT ![f] = user_input.base_url]
        /\ IF in_progress(f, unique_id)
           THEN /\ flowStep' = [flowStep EXCEPT ![f] = "abort_already_in_progress"]
                /\ UNCHANGED <<flowUniqueId, entries>>
           ELSE /\ flowUniqueId' = [flowUniqueId EXCEPT ![f] = unique_id]
                /\ IF unique_id_configured(entries, unique_id)
                   THEN /\ flowStep' = [flowStep EXCEPT ![f] = "abort_already_configured"]
                        /\ UNCHANGED entries
                   ELSE IF data[CONF_AUTH_TYPE] = AUTH_BASIC
                   THEN /\ flowStep' = [flowStep EXCEPT ![f] = "form_basic"]
                        /\ UNCHANGED entries
                   ELSE IF data[CONF_AUTH_TYPE] = AUTH_BEARER
                   THEN /\ flowStep' = [flowStep EXCEPT ![f] = "form_bearer"]
                        /\ UNCHANGED entries
                   ELSE /\ flowStep' = [flowStep EXCEPT ![f] = "create_entry"]
                        /\ entries' = entries \cup {create_entry(f, unique_id, data)}
        /\ UNCHANGED <<sensorVars, hassData>>

\* async_step_basic(user_input): the credentials form is submitted.
StepBasic(f, user_input) ==
    LET data == DictUpdate(flowData[f], [username |-> user_input.username,
                                         password |-> user_input.password])
    IN  /\ flowStep[f] = "form_basic"
        /\ flowData' = [flowData EXCEPT ![f] = data]
        /\ flowStep' = [flowStep EXCEPT ![f] = "create_entry"]
        /\ entries' = entries \cup {create_entry(f, flowUniqueId[f], data)}
        /\ UNCHANGED <<sensorVars, flowUniqueId, flowInput, hassData>>

\* async_step_bearer(user_input): the token form is submitted.
StepBearer(f, user_input) ==
    LET data == DictUpdate(flowData[f], [token |-> user_input.token])
    IN  /\ flowStep[f] = "form_bearer"
        /\ flowData' = [flowData EXCEPT ![f] = data]
        /\ flowStep' = [flowStep EXCEPT ![f] = "create_entry"]
        /\ entries' = entries \cup {create_entry(f, flowUniqueId[f], data)}
        /\ UNCHANGED <<sensorVars, flowUniqueId, flowInput, hassData>>

\* The user closes a flow that shows a form.
CloseFlow(f) ==
    /\ flowStep[f] \in InProgress
    /\ flowStep' = [flowStep EXCEPT ![f] = "closed"]
    /\ UNCHANGED <<sensorVars, flowData, flowUniqueId, flowInput, entries, hassData>>

\* __init__.async_setup_entry: when the first refresh succeeds, the
\* connection data of the entry is stored in hass.data; else setup raises.
SetupEntry(en, refreshed) ==
    /\ en.entry_id \notin DOMAIN hassData
    /\ hassData' = IF refreshed
                   THEN hassData @@ (en.entry_id :> entry_runtime_data(en.data))
                   ELSE hassData
    /\ UNCHANGED <<sensorVars, flowStep, flowData, flowUniqueId, flowInput, entries>>

\* async_unload_entry: when the platforms unload, the entry's data is popped.
UnloadEntry(en, unload_ok) ==
    /\ en.entry_id \in DOMAIN hassData
    /\ hassData' = IF unload_ok
                   THEN [id \in DOMAIN hassData \ {en.entry_id} |-> hassData[id]]
                   ELSE hassData
    /\ UNCHANGED <<sensorVars, flowStep, flowData, flowUniqueId, flowInput, entries>>

NextFlow ==
    \/ \E f \in Flows : StartFlow(f)
    \/ \E f \in Flows, user_input \in UserInputs : StepUser(f, user_input)
    \/ \E f \in Flows, user_input \in BasicInputs : StepBasic(f, user_input)
    \/ \E f \in Flows, user_input \in BearerInputs : StepBearer(f, user_input)
    \/ \E f \in Flows : CloseFlow(f)
    \/ \E en \in entries, refreshed \in BOOLEAN : SetupEntry(en, refreshed)
    \/ \E en \in entries, unload_ok \in BOOLEAN : UnloadEntry(en, unload_ok)

Next ==
    \/ \E e \in ReadingEntities : StartUpdate(e)
    \/ \E e \in ReadingEntities : GetRaises(e)
    \/ \E e \in ReadingEntities, status \in {"2xx", "404"} : GetReturns(e, status)
    \/ \E e \in ReadingEntities : JsonRaises(e)
    \/ \E e \in ReadingEntities : \E data \in ResponsesOf(e) : JsonReturns(e, data)
    \/ \E e \in ReadingEntities : Abandon(e)
    \/ \E e \in LevelEntities : LevelUpdate(e)
    \/ NewCycle
    \/ \E outcome \in RefreshOutcomes : RefreshDatastreams(outcome)

Spec == Init /\ [][Next]_vars
SpecGauge == InitGauge /\ [][Next]_vars
SpecFlow == InitFlow /\ [][NextFlow]_vars

\* ------------------------------------------------------------------- claims

RawThresholds(e) ==
    LET mh == desc[e].thing_properties.Meldehoehen IN <<mh.MH1, mh.MH2, mh.MH3>>
\* The thresholds an int reading p has reached.
Reached(e, p) == {k \in 1..3 : RawThresholds(e)[k].t = "int" /\ p >= RawThresholds(e)[k].n}
Highest(S) == CHOOSE k \in S : \A j \in S : j <= k

\* C1: whenever the level entity of a gauge is updated while the reading is
\* the int p, the level it takes is the highest k in {1,2,3} whose threshold
\* is present and not above p, and 0 when there is none; whether the other
\* thresholds are absent, and the order of the thresholds, play no part.
C1_LevelIsHighestReachedThreshold ==
    [][\A e \in LevelEntities :
          (lvlPc[e] = "idle" /\ lvlPc'[e] = "done" /\ value[e].t = "int") =>
              lvlValue'[e] = PyInt(IF Reached(e, value[e].n) = {} THEN 0
                                   ELSE Highest(Reached(e, value[e].n)))]_vars

\* C1 witness: thresholds out of order (mh1 above mh3, mh2 absent) and a
\* reading that reaches mh3 but not mh1: the level is 3.
C1_Witness ==
    \E e \in LevelEntities :
        /\ lvlPc[e] = "done" /\ lvlValue[e] = PyInt(3)
        /\ RawThresholds(e)[2] = None
        /\ RawThresholds(e)[1].t = "int" /\ RawThresholds(e)[3].t = "int"
        /\ RawThresholds(e)[1].n > RawThresholds(e)[3].n
        /\ value[e].t = "int" /\ value[e].n < RawThresholds(e)[1].n

\* The alarm level a datastream exposes: the attribute meldehoehe_level of
\* its reading entity when there is one, else the value of its level entity.
AlarmLevel(e) ==
    IF "meldehoehe_level" \in DOMAIN attrs[e] THEN attrs[e]["meldehoehe_level"]
    ELSE IF e \in LevelEntities THEN lvlValue[e]
    ELSE None
NoThresholdSet(e) == \A k \in {"mh1", "mh2", "mh3"} : attrs[e][k] = None

\* C2: once the entities of a datastream have been updated, its alarm level
\* is present and an int in 0..3, and it is 0 when the reading is missing or
\* no number, no threshold is set, or the Thing is no gauge.
C2_AlarmLevelAlwaysPresent ==
    \A e \in ReadingEntities :
        (pc[e] = "done" /\ (e \in LevelEntities => lvlPc[e] = "done")) =>
            /\ AlarmLevel(e).t = "int"
            /\ AlarmLevel(e).n \in 0..3
            /\ (\/ safe_float(value[e], None) = None
                \/ NoThresholdSet(e)
                \/ ~is_pegel(desc[e].thing_properties)) => AlarmLevel(e).n = 0

\* C3: after an update that completed with an empty "value" array the
\* reading is None, observation_note is set and phenomenonTime, resultTime
\* and observation_id are absent; the update has returned, not raised.
C3_EmptyResultState ==
    \A e \in ReadingEntities :
        (pc[e] = "done" /\ lastData[e] = Fetched([value |-> <<>>]))
        => /\ value[e] = None
           /\ "observation_note" \in DOMAIN attrs[e]
           /\ attrs[e]["observation_note"] = no_observations
           /\ ObservationKeys \cap DOMAIN attrs[e] = {}

\* C3 witness: an empty result has replaced an observation.
C3_Witness ==
    \E e \in ReadingEntities :
        /\ pc[e] = "done" /\ lastData[e] = Fetched([value |-> <<>>])
        /\ heldBefore[e]
        /\ value[e] = None /\ "observation_note" \in DOMAIN attrs[e]

\* C4: whatever updates came before, the value and the attribute map are
\* those one merge of the last response gives on a freshly constructed
\* entity, and the keys are the static ones plus those of that response.
C4_MergeHistoryFree ==
    \A e \in ReadingEntities :
        lastData[e].fetched =>
            /\ ReadingState(e) =
                   LatestObservationSensor_merge(LatestObservationSensor_init(desc[e]),
                                                 [value |-> lastData[e].value])
            /\ DOMAIN attrs[e] =
                   StaticKeys \cup (IF lastData[e].value = <<>>
                                    THEN {"observation_note"} ELSE ObservationKeys)

\* C4 witness: an observation merged into an entity that held another one,
\* beside an entity whose last response was empty.
C4_Witness ==
    \E e, f \in ReadingEntities :
        /\ pc[e] = "done" /\ heldBefore[e] /\ lastData[e].value # <<>>
        /\ "observation_note" \notin DOMAIN attrs[e]
        /\ f # e /\ lastData[f] = Fetched([value |-> <<>>])

\* C5: a step in which an update fails changes no entity's value or
\* attribute map, and a reading entity's value or attribute map changes only
\* in the step that completes one of its updates.
C5_FailureKeepsState ==
    [][\A e \in ReadingEntities :
          /\ (pc[e] \in {"get", "json"} /\ pc'[e] = "failed") =>
                 /\ value' = value /\ attrs' = attrs
                 /\ lvlValue' = lvlValue /\ lvlAttrs' = lvlAttrs
          /\ (value'[e] # value[e] \/ attrs'[e] # attrs[e]) =>
                 (pc[e] = "json" /\ pc'[e] = "done")]_vars

\* C5 witness: an update has failed and the entity still holds the
\* observation of an earlier update, while another entity was updated.
C5_Witness ==
    \E e, f \in ReadingEntities :
        /\ pc[e] = "failed" /\ HoldsObservation(ReadingState(e)) /\ value[e].t = "int"
        /\ f # e /\ pc[f] = "done"

\* C8: once the reading entity and the level entity of a gauge have both
\* been updated in a cycle, the level entity's value is the classification
\* of the reading entity's current value.
C8_LevelFollowsReading ==
    \A e \in LevelEntities :
        (pc[e] = "done" /\ lvlPc[e] = "done") =>
            lvlValue[e] = MeldehoeheLevelSensor_update(ReadingState(e), LevelState(e)).value

ObservationAttributes(o) ==
    [phenomenonTime |-> o.phenomenonTime, resultTime |-> o.resultTime,
     observation_id |-> o.id]

\* C9: in every state, whatever is in flight or was abandoned, a reading
\* entity shows either its constructed state, or None with the marker and
\* no observation key, or the result, the timestamps and the id of one and
\* the same observation and no marker.
C9_ObserverSeesOneFetch ==
    \A e \in ReadingEntities :
        \/ /\ value[e] = None
           /\ attrs[e] = StaticAttributes(desc[e])
        \/ /\ value[e] = None
           /\ attrs[e] = StaticAttributes(desc[e]) @@ [observation_note |-> no_observations]
        \/ \E o \in Observations :
              /\ value[e] = o.result
              /\ attrs[e] = StaticAttributes(desc[e]) @@ ObservationAttributes(o)

\* C9 witness: an update was abandoned and the entity still shows the whole
\* observation it held, while another entity, which shows an empty result,
\* is suspended in resp.json.
C9_Witness ==
    \E e, f \in ReadingEntities :
        /\ pc[e] = "cancelled" /\ HoldsObservation(ReadingState(e))
        /\ f # e /\ pc[f] = "json" /\ "observation_note" \in DOMAIN attrs[f]

\* C10: every update completed after a refresh leaves the entity with the
\* static attributes, thresholds and gauge classification of the datastream
\* list the coordinator holds, and the entities are those of that list.
C10_EntitiesFollowRefresh ==
    [][\A e \in ReadingEntities :
          (pc[e] = "json" /\ pc'[e] = "done") =>
              /\ ReadingEntities = DatastreamIds(coordinatorData')
              /\ LevelEntities = GaugeIds(coordinatorData')
              /\ desc'[e] = DescriptionOf(coordinatorData', e)
              /\ [k \in StaticKeys |-> attrs'[e][k]] =
                     StaticAttributes(DescriptionOf(coordinatorData', e))]_vars

CredentialKeys == {CONF_USERNAME, CONF_PASSWORD, CONF_TOKEN}
Submitted(f) == flowStep[f] = "form_user" /\ flowStep'[f] # "form_user"

\* C6: no two config entries come from URLs with the same normalized form,
\* each entry stores that form as its base URL and unique id, and a user
\* step submitted with a URL whose normalized form is configured ends the
\* flow with an abort, shows no credential form and creates no entry.
C6_NoDuplicateBaseUrl ==
    /\ [](\A en \in entries :
            /\ en.data[CONF_BASE_URL].s = normalize_base_url(flowInput[en.entry_id].s)
            /\ en.unique_id = en.data[CONF_BASE_URL]
            /\ \A other \in entries \ {en} :
                  normalize_base_url(flowInput[other.entry_id].s) #
                  normalize_base_url(flowInput[en.entry_id].s))
    /\ [][\A f \in Flows :
            (/\ Submitted(f)
             /\ \E en \in entries :
                   en.data[CONF_BASE_URL].s = normalize_base_url(flowInput'[f].s))
            => /\ flowStep'[f] = "abort_already_configured"
               /\ entries' = entries]_vars

\* C6 witness: a flow was aborted as already configured although its URL is
\* written differently from the one the entry was created with.
C6_Witness ==
    \E f \in Flows, en \in entries :
        /\ flowStep[f] = "abort_already_configured"
        /\ flowInput[f] # flowInput[en.entry_id]
        /\ normalize_base_url(flowInput[f].s) = en.data[CONF_BASE_URL].s

\* C7: every entry has one of the three auth modes and the credentials of
\* that mode only, as they were submitted; what setup stores for it is no
\* auth object and no Authorization header (none), a BasicAuth object and
\* no Authorization header (basic), or the header "Bearer <token>" and no
\* auth object (bearer); and the entry is created by the user step for mode
\* none, by the basic step for basic and by the bearer step for bearer.
C7_OneAuthMode ==
    /\ [](\A en \in entries :
            LET mode == en.data[CONF_AUTH_TYPE]
                creds == DOMAIN en.data \cap CredentialKeys
                built == build_auth(en.data)
            IN  /\ mode \in {AUTH_NONE, AUTH_BASIC, AUTH_BEARER}
                /\ en.entry_id \in DOMAIN hassData =>
                      /\ hassData[en.entry_id].headers = built.headers
                      /\ hassData[en.entry_id].auth = built.auth
                /\ mode = AUTH_NONE =>
                      /\ creds = {}
                      /\ built.auth = NoAuth
                      /\ DOMAIN built.headers = {"Accept"}
                /\ mode = AUTH_BASIC =>
                      /\ creds = {CONF_USERNAME, CONF_PASSWORD}
                      /\ en.data[CONF_USERNAME] \in {i.username : i \in BasicInputs}
                      /\ built.auth = BasicAuth(en.data[CONF_USERNAME], en.data[CONF_PASSWORD])
                      /\ DOMAIN built.headers = {"Accept"}
                /\ mode = AUTH_BEARER =>
                      /\ creds = {CONF_TOKEN}
                      /\ built.auth = NoAuth
                      /\ DOMAIN built.headers = {"Accept", "Authorization"}
                      /\ built.headers["Authorization"] =
                             PyStr(<<"Bearer ">> \o en.data[CONF_TOKEN].s))
    /\ [][\A f \in Flows :
            (flowStep'[f] = "create_entry" /\ flowStep[f] # "create_entry") =>
                /\ entries' \ entries = {create_entry(f, flowUniqueId'[f], flowData'[f])}
                /\ flowStep[f] =
                       CASE flowData'[f][CONF_AUTH_TYPE] = AUTH_BASIC -> "form_basic"
                         [] flowData'[f][CONF_AUTH_TYPE] = AUTH_BEARER -> "form_bearer"
                         [] OTHER -> "form_user"]_vars

\* C7 witness: a basic entry and a bearer entry exist and are set up.
C7_Witness ==
    \E b, t \in entries :
        /\ b.data[CONF_AUTH_TYPE] = AUTH_BASIC /\ t.data[CONF_AUTH_TYPE] = AUTH_BEARER
        /\ {b.entry_id, t.entry_id} \subseteq DOMAIN hassData
        /\ hassData[b.entry_id].auth.auth = "BasicAuth"
        /\ "Authorization" \in DOMAIN hassData[t.entry_id].headers
====
